---- MODULE Spec2Model ----
(***************************************************************************)
(* Model of the Morrowind BAIN installer extension (src/index.js).         *)
(*                                                                         *)
(* A path entry is a sequence of one-character strings.  An archive        *)
(* listing is a sequence of path entries.  The host (the mod manager) is   *)
(* the environment: it supplies the listing and the game identifier, and   *)
(* it resolves or rejects the dialog the installer opens.                  *)
(***************************************************************************)
EXTENDS Integers, Sequences, FiniteSets

(***************************************************************************)
(* Bounds of the model.                                                    *)
(***************************************************************************)
\* Longest archive listing the host supplies.
MaxFiles == 3

(***************************************************************************)
(* Characters.                                                             *)
(***************************************************************************)
\* path.sep: the one separator character of the listing.
sep == "/"

\* The characters the regular-expression class \d matches.
Digits == {"0", "1", "2", "3", "4", "5", "6", "7", "8", "9"}

\* Characters the regular-expression class \s matches: the space and the
\* other white-space characters, of which the tab stands for all.
Whitespace == {" ", "\t"}

\* const GAME_ID
GAME_ID == "morrowind"

(***************************************************************************)
(* String primitives of the JavaScript runtime.                            *)
(***************************************************************************)
\* String.prototype.endsWith
endsWith(s, suffix) ==
    /\ Len(s) >= Len(suffix)
    /\ SubSeq(s, Len(s) - Len(suffix) + 1, Len(s)) = suffix

\* String.prototype.startsWith
startsWith(s, prefix) ==
    /\ Len(s) >= Len(prefix)
    /\ SubSeq(s, 1, Len(prefix)) = prefix

\* String.prototype.indexOf for a one-character needle (0-based, -1 if none)
indexOf(s, c) ==
    IF \E i \in 1..Len(s) : s[i] = c
    THEN (CHOOSE i \in 1..Len(s) : s[i] = c /\ \A j \in 1..(i - 1) : s[j] # c) - 1
    ELSE -1

\* String.prototype.lastIndexOf for a one-character needle
lastIndexOf(s, c) ==
    IF \E i \in 1..Len(s) : s[i] = c
    THEN (CHOOSE i \in 1..Len(s) : s[i] = c /\ \A j \in (i + 1)..Len(s) : s[j] # c) - 1
    ELSE -1

(***************************************************************************)
(* The path module: split, join, normalisation, basename, relative.        *)
(***************************************************************************)
\* The position of the k-th separator of s; 0 for k = 0, and Len(s) + 1
\* when s has fewer than k separators.
sepAt(s, k) ==
    IF k = 0 THEN 0
    ELSE IF \E i \in 1..Len(s) : s[i] = sep /\ Cardinality({j \in 1..i : s[j] = sep}) = k
    THEN CHOOSE i \in 1..Len(s) : s[i] = sep /\ Cardinality({j \in 1..i : s[j] = sep}) = k
    ELSE Len(s) + 1

\* The segments of a path, cut at every separator (empty segments kept).
split(s) ==
    [k \in 1..(Cardinality({i \in 1..Len(s) : s[i] = sep}) + 1) |->
        SubSeq(s, sepAt(s, k - 1) + 1, sepAt(s, k) - 1)]

RECURSIVE joinFirst(_, _)
\* The first n segments joined by the separator.
joinFirst(segs, n) ==
    IF n = 0 THEN <<>>
    ELSE IF n = 1 THEN segs[1]
    ELSE joinFirst(segs, n - 1) \o <<sep>> \o segs[n]

\* The segments joined by the separator.
join(segs) == joinFirst(segs, Len(segs))

\* The parent of a normalised absolute path; the root is its own parent.
dropLast(acc) == SubSeq(acc, 1, Len(acc) - 1)

RECURSIVE normalizeSegments(_, _)
\* Normalisation of the first n segments of an absolute path: empty and "."
\* segments vanish, ".." removes the segment before it.
normalizeSegments(segs, n) ==
    IF n = 0 THEN <<>>
    ELSE IF segs[n] = <<>> \/ segs[n] = <<".">>
    THEN normalizeSegments(segs, n - 1)
    ELSE IF segs[n] = <<".", ".">>
    THEN dropLast(normalizeSegments(segs, n - 1))
    ELSE Append(normalizeSegments(segs, n - 1), segs[n])

\* process.cwd(), as the segments of an absolute path: one directory whose
\* name no listing uses.
Cwd == << <<"~">> >>

\* path.resolve of a relative path: the normalised segments under the
\* working directory.
resolve(p) ==
    CHOOSE r \in { normalizeSegments(segs, Len(segs)) : segs \in {Cwd \o split(p)} } : TRUE

\* Number of leading segments two segment sequences share.
commonPrefixLen(a, b) ==
    Cardinality({k \in 1..Len(a) : k <= Len(b) /\ \A i \in 1..k : a[i] = b[i]})

\* path.basename: the last non-empty segment, trailing separators ignored.
basename(p) ==
    LET segs == SelectSeq(split(p), LAMBDA seg : seg # <<>>)
    IN  IF segs = <<>> THEN <<>> ELSE segs[Len(segs)]

\* The relative path between two resolved paths: one ".." for every segment
\* of `from` past the common prefix, then the segments of `to` past it.
relativeSegments(f, t) ==
    join([i \in 1..(Len(f) - commonPrefixLen(f, t)) |-> <<".", ".">>]
         \o SubSeq(t, commonPrefixLen(f, t) + 1, Len(t)))

\* A relative that resolves nothing and returns `to` as it is.
relative_Unstripped(from, to) == to

\* path.relative(from, to): both paths resolved, then compared segment by
\* segment (f and t name the two resolved paths).
relative(from, to) ==
    IF from = to THEN <<>>
    ELSE CHOOSE r \in { relativeSegments(f, t) :
                          f \in {resolve(from)}, t \in {resolve(to)} } : TRUE

(***************************************************************************)
(* Helper functions of the extension.                                      *)
(***************************************************************************)
\* BAIN_FOLDER_PATTERN.test(file), the pattern being /^\d{2}\s/
BAIN_FOLDER_PATTERN(file) ==
    /\ Len(file) >= 3
    /\ file[1] \in Digits
    /\ file[2] \in Digits
    /\ file[3] \in Whitespace

isDirectory(file) == endsWith(file, <<sep>>)

isFile(file) == ~endsWith(file, <<sep>>)

isTopLevel(file) == indexOf(file, sep) = lastIndexOf(file, sep)

isTopLevelDirectory(file) == isDirectory(file) /\ isTopLevel(file)

\* A test that looks at the first selected folder only.
isFileInSelectedFolder_FirstOnly(file, selectedFolders) ==
    startsWith(file, selectedFolders[1])

isFileInSelectedFolder(file, selectedFolders) ==
    \E i \in 1..Len(selectedFolders) : startsWith(file, selectedFolders[i])

\* A find that takes the first selected folder whatever the file.
findFolder_First(file, selectedFolders) == selectedFolders[1]

\* Array.prototype.find with the predicate file.startsWith(folder): the
\* first selected folder the file starts with.
findFolder(file, selectedFolders) ==
    LET hits == {i \in 1..Len(selectedFolders) : startsWith(file, selectedFolders[i])}
    IN  selectedFolders[CHOOSE i \in hits : \A j \in hits : i <= j]

getRelativePath(file, selectedFolders) ==
    relative(findFolder(file, selectedFolders), file)

getBainFolders(files) ==
    SelectSeq(files, LAMBDA file : isTopLevelDirectory(file) /\ BAIN_FOLDER_PATTERN(file))

\* A detector that forgets to compare the game identifier.
testSupportedContent_AnyGame(files, gameId) ==
    [supported     |-> Len(getBainFolders(files)) > 0,
     requiredFiles |-> <<>>]

testSupportedContent(files, gameId) ==
    [supported     |-> (gameId = GAME_ID) /\ (Len(getBainFolders(files)) > 0),
     requiredFiles |-> <<>>]

(***************************************************************************)
(* The dialog request of showFolderSelectionDialog.                        *)
(***************************************************************************)
\* Checkboxes that are all ticked by default.
checkboxes_AllTicked(bainFolders) ==
    [index \in 1..Len(bainFolders) |->
        [id    |-> bainFolders[index],
         text  |-> basename(bainFolders[index]),
         value |-> TRUE]]

\* The checkboxes of the request: one per BAIN folder.
checkboxes(bainFolders) ==
    [index \in 1..Len(bainFolders) |->
        [id    |-> bainFolders[index],
         text  |-> basename(bainFolders[index]),
         value |-> (index = 1)]]

\* The actions of the request; a missing `default` key reads as FALSE.
dialogActions ==
    << [label |-> "Cancel",   default |-> FALSE],
       [label |-> "Continue", default |-> TRUE] >>

\* The arguments of context.api.showDialog.
dialogRequest(bainFolders) ==
    [type       |-> "question",
     title      |-> "Choose BAIN Options",
     checkboxes |-> checkboxes(bainFolders),
     actions    |-> dialogActions]

\* A test that aborts on 'Cancel' only.
dialogCanceled_CancelOnly(result) == result.action = "Cancel"

\* The test that aborts the dialog step: the action is 'Cancel', or no
\* value of result.input is true.
dialogCanceled(result) ==
    \/ result.action = "Cancel"
    \/ ~(\E i \in 1..Len(result.input) : result.input[i].value)

\* Object.entries(result.input) filtered to the true values, keys kept.
selectedKeys(result) ==
    LET ticked == SelectSeq(result.input, LAMBDA entry : entry.value)
    IN  [i \in 1..Len(ticked) |-> ticked[i].key]

\* The copy instructions of the kept files.
makeInstructions(filtered, selectedFolders) ==
    [i \in 1..Len(filtered) |->
        [type        |-> "copy",
         source      |-> filtered[i],
         destination |-> getRelativePath(filtered[i], selectedFolders)]]

(***************************************************************************)
(* The environment: the listings and the dialog responses of the host.     *)
(***************************************************************************)
\* The path entries the host's listings are made of: files and directories
\* at the top level and beneath directories, with names that match the
\* folder pattern with a space, match it with another white-space
\* character, or do not match it.
Entries ==
    { <<"0", "0", " ", "/">>,                          \* "00 /"
      <<"0", "0", "\t", "/">>,                         \* "00<tab>/"
      <<"a", "/">>,                                    \* "a/"
      <<"a">>,                                         \* "a"
      <<"0", "0", " ">>,                               \* "00 "
      <<"0", "0", " ", "/", "a">>,                     \* "00 /a"
      <<"0", "0", " ", "/", "a", "/">>,                \* "00 /a/"
      <<"0", "0", " ", "/", "0", "0", " ", "/", "a">>, \* "00 /00 /a"
      <<"0", "0", "\t", "/", "a">>,                    \* "00<tab>/a"
      <<"a", "/", "a">> }                              \* "a/a"

\* The listings: every sequence of at most MaxFiles entries.
Listings == UNION { [1..n -> Entries] : n \in 0..MaxFiles }

\* The game identifiers the host asks about.
GameIds == {"morrowind", "skyrim"}

\* The sequences that list every element of S once.
Perms(S) ==
    { p \in [1..Cardinality(S) -> S] :
        \A i, j \in 1..Cardinality(S) : i # j => p[i] # p[j] }

\* The input maps the host can return for a request: one key per distinct
\* checkbox id, in any key order, each with a boolean value.
Inputs(request) ==
    LET ids == { request.checkboxes[i].id : i \in 1..Len(request.checkboxes) }
    IN  { [i \in 1..Len(p) |-> [key |-> p[i], value |-> v[p[i]]]] :
            p \in Perms(ids), v \in [ids -> BOOLEAN] }

(***************************************************************************)
(* State.                                                                  *)
(***************************************************************************)
VARIABLES
    files,            \* the archive listing the host passed to the call
    pc,               \* position of the call
    detection,        \* what testSupportedContent resolved with, and for which gameId
    bainFolders,      \* installContent's bainFolders
    dialog,           \* the showDialog requests made, in order
    response,         \* how the host settled the dialog
    error,            \* the error caught by installContent's catch
    selectedFolders,  \* installContent's selectedFolders
    filtered,         \* installContent's filtered
    result,           \* what installContent settled with
    logs              \* the log calls made, in order

vars == <<files, pc, detection, bainFolders, dialog, response, error,
          selectedFolders, filtered, result, logs>>

NoResponse == [kind |-> "none", action |-> "", input |-> <<>>]

Pending == [kind |-> "pending", instructions |-> <<>>]

Init ==
    /\ files = <<>>
    /\ pc = "Start"
    /\ detection = [called |-> FALSE, gameId |-> "", supported |-> FALSE,
                    requiredFiles |-> <<>>]
    /\ bainFolders = <<>>
    /\ dialog = <<>>
    /\ response = NoResponse
    /\ error = "none"
    /\ selectedFolders = <<>>
    /\ filtered = <<>>
    /\ result = Pending
    /\ logs = <<>>

(***************************************************************************)
(* Actions.                                                                *)
(***************************************************************************)
\* The host calls testSupportedContent(files, gameId) with a listing and a
\* game identifier of its choice.
Detect ==
    /\ pc = "Start"
    /\ \E listing \in Listings, gameId \in GameIds :
         LET r == testSupportedContent(listing, gameId)
         IN  /\ files' = listing
             /\ detection' = [called |-> TRUE, gameId |-> gameId,
                               supported |-> r.supported,
                               requiredFiles |-> r.requiredFiles]
    /\ pc' = "Detected"
    /\ UNCHANGED <<bainFolders, dialog, response, error,
                   selectedFolders, filtered, result, logs>>

\* The host calls installContent(files) with a listing of its choice: the
\* code up to the await of showDialog.
InstallContent ==
    /\ pc = "Start"
    /\ files' \in Listings
    /\ bainFolders' = getBainFolders(files')
    /\ logs' = Append(logs, [level |-> "debug", msg |-> "BAIN folders"])
    /\ dialog' = Append(dialog, dialogRequest(bainFolders'))
    /\ pc' = "AwaitingUserChoice"
    /\ UNCHANGED <<detection, response, error, selectedFolders,
                   filtered, result>>

\* The host resolves the dialog; showFolderSelectionDialog throws
\* UserCanceled or returns the selected folders.
ResolveDialog ==
    /\ pc = "AwaitingUserChoice"
    /\ \E action \in {"Cancel", "Continue"}, input \in Inputs(dialog[Len(dialog)]) :
         /\ response' = [kind |-> "resolved", action |-> action, input |-> input]
         /\ IF dialogCanceled(response')
            THEN /\ error' = "UserCanceled"
                 /\ pc' = "Aborted"
                 /\ UNCHANGED selectedFolders
            ELSE /\ selectedFolders' = selectedKeys(response')
                 /\ pc' = "Confirmed"
                 /\ UNCHANGED error
    /\ UNCHANGED <<files, detection, bainFolders, dialog, filtered, result, logs>>

\* The host rejects the dialog: the await throws the host's error.
RejectDialog ==
    /\ pc = "AwaitingUserChoice"
    /\ response' = [kind |-> "rejected", action |-> "", input |-> <<>>]
    /\ error' = "HostError"
    /\ pc' = "Aborted"
    /\ UNCHANGED <<files, detection, bainFolders, dialog, selectedFolders,
                   filtered, result, logs>>

\* A catch that starts the installation over.
CatchDialogError_Retry ==
    /\ pc = "Aborted"
    /\ logs' = Append(logs, [level |-> "error", msg |-> "Dialog error"])
    /\ pc' = "Start"
    /\ UNCHANGED <<files, detection, bainFolders, dialog, response, error,
                   selectedFolders, filtered, result>>

\* A catch that lets the error escape: no log, the promise rejects.
CatchDialogError_Rethrow ==
    /\ pc = "Aborted"
    /\ result' = [kind |-> "rejected", instructions |-> <<>>]
    /\ pc' = "EmptyResult"
    /\ UNCHANGED <<files, detection, bainFolders, dialog, response, error,
                   selectedFolders, filtered, logs>>

\* The catch of installContent: log the error, resolve with [].
CatchDialogError ==
    /\ pc = "Aborted"
    /\ logs' = Append(logs, [level |-> "error", msg |-> "Dialog error"])
    /\ result' = [kind |-> "array", instructions |-> <<>>]
    /\ pc' = "EmptyResult"
    /\ UNCHANGED <<files, detection, bainFolders, dialog, response, error,
                   selectedFolders, filtered>>

\* The filter of installContent.
FilterFiles ==
    /\ pc = "Confirmed"
    /\ filtered' = SelectSeq(files,
           LAMBDA file : isFile(file) /\ isFileInSelectedFolder(file, selectedFolders))
    /\ logs' = logs \o << [level |-> "debug", msg |-> "Selected folders"],
                          [level |-> "debug", msg |-> "Filtered files"] >>
    /\ pc' = "Filtering"
    /\ UNCHANGED <<files, detection, bainFolders, dialog, response, error,
                   selectedFolders, result>>

\* The map of installContent and its return.
EmitInstructions ==
    /\ pc = "Filtering"
    /\ result' = [kind |-> "object",
                  instructions |-> makeInstructions(filtered, selectedFolders)]
    /\ logs' = Append(logs, [level |-> "debug", msg |-> "Generated instructions"])
    /\ pc' = "InstructionsEmitted"
    /\ UNCHANGED <<files, detection, bainFolders, dialog, response, error,
                   selectedFolders, filtered>>

Next ==
    \/ Detect
    \/ InstallContent
    \/ ResolveDialog
    \/ RejectDialog
    \/ CatchDialogError
    \/ FilterFiles
    \/ EmitInstructions

Spec == Init /\ [][Next]_vars

\* The steps that follow the request of the dialog.  At most one of them is
\* enabled in a state.
AfterRequest ==
    \/ ResolveDialog
    \/ RejectDialog
    \/ CatchDialogError
    \/ FilterFiles
    \/ EmitInstructions

\* The host settles every dialog it shows, and the installer, once resumed,
\* runs to its return.
FairSpec == Spec /\ WF_vars(AfterRequest)

(***************************************************************************)
(* Vocabulary of the properties, stated without the extension's helpers.   *)
(***************************************************************************)
\* p is a prefix of s.
IsPrefixOf(p, s) == \E n \in 0..Len(s) : SubSeq(s, 1, n) = p

\* The entry is written as a directory: its last character is the separator.
EndsWithSep(p) == Len(p) > 0 /\ p[Len(p)] = sep

\* The number of separators in the entry.
SepCount(p) == Cardinality({i \in 1..Len(p) : p[i] = sep})

\* The folders the host's response ticks.
TickedFolders ==
    { response.input[i].key : i \in {j \in 1..Len(response.input) : response.input[j].value} }

\* The sources of the emitted instructions, in order.
Sources == [i \in 1..Len(result.instructions) |-> result.instructions[i].source]

\* The log calls made at 'error' level.
ErrorLogs == SelectSeq(logs, LAMBDA l : l.level = "error")

\* The dialog step aborts: the host rejected, the user cancelled, or the
\* user continued with no checkbox ticked.
AbortCause ==
    \/ response.kind = "rejected"
    \/ /\ response.kind = "resolved"
       /\ \/ response.action = "Cancel"
          \/ \A i \in 1..Len(response.input) : ~response.input[i].value

(***************************************************************************)
(* C1.  testSupportedContent(L, g) resolves with supported = TRUE exactly  *)
(* when g is 'morrowind' and getBainFolders(L) is non-empty, and with      *)
(* requiredFiles empty in every case.                                      *)
(***************************************************************************)
C1_SupportedIff ==
    detection.called =>
        /\ detection.supported
              <=> (detection.gameId = "morrowind" /\ getBainFolders(files) # <<>>)
        /\ detection.requiredFiles = <<>>

C1_Witness ==
    /\ detection.called
    /\ detection.supported
    /\ Len(files) > Len(getBainFolders(files))

(***************************************************************************)
(* C2.  Whenever the dialog step aborts (Cancel with any checkbox values,  *)
(* Continue with no checkbox ticked, or the host rejecting), installContent*)
(* does not reject: it logs one message at 'error' level and resolves with *)
(* the empty array, with no copy instruction.                              *)
(***************************************************************************)
C2_AbortResolvesEmpty ==
    /\ AbortCause => pc \in {"Aborted", "EmptyResult"}
    /\ result.kind # "rejected"
    /\ pc = "Aborted" => /\ AbortCause
                         /\ result = Pending
                         /\ ErrorLogs = <<>>
    /\ pc = "EmptyResult" => /\ AbortCause
                             /\ result = [kind |-> "array", instructions |-> <<>>]
                             /\ Len(ErrorLogs) = 1

C2_Witness ==
    /\ pc = "EmptyResult"
    /\ response.action = "Continue"
    /\ Len(response.input) >= 1

(***************************************************************************)
(* C3.  When the dialog is confirmed with a non-empty selection S, the     *)
(* sources of the instructions are exactly the entries of L, in L's order  *)
(* and multiplicity, that do not end with the separator and start with a   *)
(* folder of S; every instruction has type 'copy'.                         *)
(***************************************************************************)
C3_SourcesAreSelectedFiles ==
    pc = "InstructionsEmitted" =>
        /\ TickedFolders # {}
        /\ result.kind = "object"
        /\ Sources = SelectSeq(files,
               LAMBDA f : ~EndsWithSep(f) /\ \E d \in TickedFolders : IsPrefixOf(d, f))
        /\ \A i \in 1..Len(result.instructions) : result.instructions[i].type = "copy"

C3_Witness ==
    /\ pc = "InstructionsEmitted"
    /\ Len(result.instructions) >= 1
    /\ \E i \in 1..Len(files) :
          ~EndsWithSep(files[i]) /\ \A j \in 1..Len(Sources) : Sources[j] # files[i]

(***************************************************************************)
(* C4.  With a selection made of BAIN folders of the listing, the source   *)
(* of every instruction starts with exactly one selected folder, the       *)
(* destination is the source with that folder's path removed from its      *)
(* front (everything beneath the folder kept), and the destination is the  *)
(* same for every order of the selected folders.                           *)
(***************************************************************************)
C4_PrefixRemoved ==
    pc = "InstructionsEmitted" =>
        \A i \in 1..Len(result.instructions) :
            LET ins == result.instructions[i]
                under == {d \in TickedFolders : IsPrefixOf(d, ins.source)}
            IN  /\ ~EndsWithSep(ins.source)
                /\ Cardinality(under) = 1
                /\ \A d \in under : d \o ins.destination = ins.source
                /\ \A order \in Perms(TickedFolders) :
                       getRelativePath(ins.source, order) = ins.destination

C4_Witness ==
    /\ pc = "InstructionsEmitted"
    /\ Len(selectedFolders) = 2
    /\ \E i \in 1..Len(result.instructions) :
          /\ IsPrefixOf(selectedFolders[2], result.instructions[i].source)
          /\ SepCount(result.instructions[i].destination) = 1

(***************************************************************************)
(* C5.  As claimed: the destination of an instruction never contains the   *)
(* segment of the selected folder the file lies under, and never starts    *)
(* with it, at any depth beneath the folder.                               *)
(***************************************************************************)
C5_NeverFolderSegment ==
    pc = "InstructionsEmitted" =>
        \A i \in 1..Len(result.instructions) :
            LET ins  == result.instructions[i]
                segs == split(ins.destination)
            IN  \A d \in TickedFolders :
                    IsPrefixOf(d, ins.source) =>
                        \A k \in 1..Len(segs) : segs[k] \o <<sep>> # d

(***************************************************************************)
(* C5, amended.  The destination is the source without its first segment,  *)
(* which is the selected folder's: only that one segment goes, so the      *)
(* destination starts with the folder's segment exactly when the source    *)
(* repeats that segment directly beneath the folder.                       *)
(***************************************************************************)
C5_OnlyLeadingSegmentRemoved ==
    pc = "InstructionsEmitted" =>
        \A i \in 1..Len(result.instructions) :
            LET ins == result.instructions[i]
                src == split(ins.source)
                dst == split(ins.destination)
            IN  /\ Len(src) >= 2
                /\ src[1] \o <<sep>> \in TickedFolders
                /\ dst = Tail(src)
                /\ (dst[1] = src[1]) <=> (src[2] = src[1])

C5_Witness ==
    /\ pc = "InstructionsEmitted"
    /\ \E i \in 1..Len(result.instructions) :
          LET src == split(result.instructions[i].source)
          IN  /\ Len(src) = 3
              /\ src[2] = src[1]
              /\ split(result.instructions[i].destination)[1] = src[1]

(***************************************************************************)
(* C6.  An installation attempt runs Start, AwaitingUserChoice, then       *)
(* Aborted and EmptyResult, or Confirmed, Filtering and                    *)
(* InstructionsEmitted: the dialog is requested exactly once, nothing is   *)
(* filtered or generated before the response or after an abort, the        *)
(* terminal states take no further step, and once the host settles the     *)
(* dialog the attempt reaches EmptyResult or InstructionsEmitted.          *)
(***************************************************************************)
Terminal == {"EmptyResult", "InstructionsEmitted"}

AllowedSteps ==
    { <<"Start", "Detected">>,
      <<"Start", "AwaitingUserChoice">>,
      <<"AwaitingUserChoice", "Aborted">>,
      <<"AwaitingUserChoice", "Confirmed">>,
      <<"Aborted", "EmptyResult">>,
      <<"Confirmed", "Filtering">>,
      <<"Filtering", "InstructionsEmitted">> }

NothingFiltered ==
    /\ filtered = <<>>
    /\ result.kind # "object"
    /\ \A i \in 1..Len(logs) :
          logs[i].msg \notin {"Selected folders", "Filtered files", "Generated instructions"}

\* Every step of the attempt is one of the allowed ones.
AllowedStep == <<pc, pc'>> \in AllowedSteps

C6_OneDialogRoundTrip ==
    /\ [][AllowedStep]_vars
    /\ [](Len(dialog) = IF pc \in {"Start", "Detected"} THEN 0 ELSE 1)
    /\ [](pc \in {"Start", "AwaitingUserChoice", "Aborted", "EmptyResult"}
             => NothingFiltered)
    /\ [](pc \in Terminal <=> result.kind # "pending")
    /\ (pc = "AwaitingUserChoice") ~> (pc \in Terminal)

C6_Witness ==
    /\ pc = "InstructionsEmitted"
    /\ Len(dialog) = 1
    /\ Len(result.instructions) = 2

(***************************************************************************)
(* C7.  As claimed: getBainFolders(L) keeps, in order and with duplicates, *)
(* exactly the entries of L that end with the separator, hold no other     *)
(* separator, and whose name starts with two ASCII digits followed by a    *)
(* space.                                                                  *)
(***************************************************************************)
\* The space character, U+0020.
Space == " "

\* The three-part predicate of the claim.
ClaimedBainFolder(p) ==
    /\ EndsWithSep(p)
    /\ SepCount(p) = 1
    /\ Len(p) >= 4
    /\ p[1] \in Digits
    /\ p[2] \in Digits
    /\ p[3] = Space

C7_BainFoldersAsClaimed ==
    pc \notin {"Start", "Detected"} =>
        bainFolders = SelectSeq(files, ClaimedBainFolder)

(***************************************************************************)
(* C8.  The dialog request holds one checkbox per element of               *)
(* getBainFolders(L), in order, with the folder's path as id and its       *)
(* basename as label; only the first checkbox is pre-checked; the actions  *)
(* are 'Cancel' and 'Continue', of which only 'Continue' is the default.   *)
(***************************************************************************)
C8_DialogRequest ==
    Len(dialog) >= 1 =>
        LET req     == dialog[1]
            folders == getBainFolders(files)
        IN  /\ Len(req.checkboxes) = Len(folders)
            /\ \A i \in 1..Len(folders) :
                  /\ req.checkboxes[i].id = folders[i]
                  /\ req.checkboxes[i].text \o <<sep>> = folders[i]
                  /\ req.checkboxes[i].value = (i = 1)
            /\ Len(req.actions) = 2
            /\ req.actions[1].label = "Cancel"
            /\ req.actions[2].label = "Continue"
            /\ {i \in 1..2 : req.actions[i].default} = {2}

C8_Witness ==
    /\ Len(dialog) = 1
    /\ Len(dialog[1].checkboxes) = 2
    /\ dialog[1].checkboxes[1].id # dialog[1].checkboxes[2].id

(***************************************************************************)
(* C9.  As claimed: isTopLevel(p) is true exactly when p has no separator  *)
(* before its final character, so that a file inside a directory is not    *)
(* top-level.                                                              *)
(***************************************************************************)
C9_TopLevelAsClaimed ==
    \A i \in 1..Len(files) :
        isTopLevel(files[i]) <=> (\A j \in 1..(Len(files[i]) - 1) : files[i][j] # sep)

(***************************************************************************)
(* C10.  When the listing has no BAIN folder, the dialog is requested with *)
(* no checkbox and, whatever the user does, the attempt ends in            *)
(* EmptyResult: no instruction is emitted and nothing is thrown.           *)
(***************************************************************************)
C10_NoFolderNoInstruction ==
    (pc \notin {"Start", "Detected"} /\ getBainFolders(files) = <<>>) =>
        /\ Len(dialog[1].checkboxes) = 0
        /\ pc \in {"AwaitingUserChoice", "Aborted", "EmptyResult"}
        /\ result.instructions = <<>>
        /\ result.kind \in {"pending", "array"}
        /\ pc = "EmptyResult" <=> result.kind = "array"

C10_Witness ==
    /\ pc = "EmptyResult"
    /\ getBainFolders(files) = <<>>
    /\ Len(files) >= 2
    /\ response.action = "Continue"

====
